---- MODULE Spec2Model ----
(***************************************************************************)
(* Model of the cataclysm macro-assembler (src/src/main.rs): the typed IR  *)
(* for x86-64 assembly (labels, globals, registers, immediates, operands,  *)
(* instructions, data directives, expressions, sections) and its Display   *)
(* implementations, which render the IR as Intel/NASM-style text.          *)
(*                                                                         *)
(* Text is a sequence of one-character strings.  A 64-bit word is a tuple  *)
(* of four 16-bit limbs, least significant first.                          *)
(***************************************************************************)
EXTENDS Integers, Sequences, FiniteSets, TLC

VARIABLES
    pc,       \* "build": nothing in hand; "built": node constructed;
              \* "rendered": out = text of node; "panicked": Display::fmt panicked
    op,       \* name of the constructor that produced node
    arg,      \* the text argument of a symbol constructor (Label::plain, Label::hashed, Global::new)
    node,     \* the IR value in hand
    out,      \* the text written to the formatter by the last Display::fmt
    calls,    \* number of Label::hashed calls made so far
    derived   \* log of Label::hashed calls: records [name, text, site]

vars == <<pc, op, arg, node, out, calls, derived>>

----------------------------------------------------------------------------
(* Bounds of the model *)

MaxOperands == 2
MaxNodes == 4
MaxBytes == 2
MaxCalls == 4

----------------------------------------------------------------------------
(* Generic helpers on sequences and text *)

RECURSIVE Concat(_)
Concat(ss) == IF ss = <<>> THEN <<>> ELSE Head(ss) \o Concat(Tail(ss))

RECURSIVE SeqsOfLen(_, _)
SeqsOfLen(S, n) ==
    IF n = 0 THEN {<<>>}
    ELSE {<<x>> \o s : x \in S, s \in SeqsOfLen(S, n - 1)}

SeqsUpTo(S, n) == UNION {SeqsOfLen(S, k) : k \in 0..n}

Pow2(k) == <<1, 2, 4, 8, 16, 32, 64, 128, 256, 512, 1024, 2048, 4096,
             8192, 16384, 32768, 65536>>[k + 1]

----------------------------------------------------------------------------
(* Integer formatting: "{}" on u64 / usize / i64, "{:02X}" on u8,          *)
(* "{:x}" on u64                                                           *)

DecDigit(d) == <<"0", "1", "2", "3", "4", "5", "6", "7", "8", "9">>[d + 1]

LowerHexDigit(d) ==
    <<"0", "1", "2", "3", "4", "5", "6", "7", "8", "9",
      "a", "b", "c", "d", "e", "f">>[d + 1]

UpperHexDigit(d) ==
    <<"0", "1", "2", "3", "4", "5", "6", "7", "8", "9",
      "A", "B", "C", "D", "E", "F">>[d + 1]

RECURSIVE FmtUnsigned(_)
FmtUnsigned(n) ==
    IF n < 10 THEN <<DecDigit(n)>>
    ELSE FmtUnsigned(n \div 10) \o <<DecDigit(n % 10)>>

FmtSigned(n) == IF n < 0 THEN <<"-">> \o FmtUnsigned(-n) ELSE FmtUnsigned(n)

\* format!("0x{:02X}", byte): upper-case hex, zero-padded to two digits
FmtByte(byte) ==
    <<"0", "x", UpperHexDigit(byte \div 16), UpperHexDigit(byte % 16)>>

\* the sixteen nibbles of a 64-bit word, most significant first
Nibbles(w) ==
    [i \in 1..16 |->
        LET limb == w[4 - ((i - 1) \div 4)]
            pos  == 3 - ((i - 1) % 4)
        IN  (limb \div Pow2(4 * pos)) % 16]

RECURSIVE StripLeadingZeros(_)
StripLeadingZeros(ds) ==
    IF Len(ds) > 1 /\ Head(ds) = 0 THEN StripLeadingZeros(Tail(ds)) ELSE ds

\* "{:x}" on a u64: lower-case hex, minimal number of digits, no padding
FmtLowerHex(w) ==
    LET ds == StripLeadingZeros(Nibbles(w))
    IN  [i \in 1..Len(ds) |-> LowerHexDigit(ds[i])]

----------------------------------------------------------------------------
(* 64-bit arithmetic on limb tuples *)

RECURSIVE XorBits(_, _, _)
XorBits(a, b, n) ==
    IF n = 0 THEN 0
    ELSE ((a + b) % 2) + 2 * XorBits(a \div 2, b \div 2, n - 1)

Xor64(a, b) == <<XorBits(a[1], b[1], 16), XorBits(a[2], b[2], 16),
                 XorBits(a[3], b[3], 16), XorBits(a[4], b[4], 16)>>

\* wrapping_add on u64
Add64(a, b) ==
    LET s1 == a[1] + b[1]
        s2 == a[2] + b[2] + (s1 \div 65536)
        s3 == a[3] + b[3] + (s2 \div 65536)
        s4 == a[4] + b[4] + (s3 \div 65536)
    IN  <<s1 % 65536, s2 % 65536, s3 % 65536, s4 % 65536>>

\* rotate_left on u64
Rotl64(a, k) ==
    LET q == k \div 16
        r == k % 16
        limb(i) == a[((i - 1 - q + 8) % 4) + 1]
    IN  [i \in 1..4 |->
            ((limb(i) * Pow2(r)) % 65536) + (limb(i - 1) \div Pow2(16 - r))]

----------------------------------------------------------------------------
(* std::collections::hash_map::DefaultHasher: SipHash-1-3 with the fixed   *)
(* key (0, 0), fed by <str as Hash>::hash (the bytes, then 0xFF)           *)

LowerCase == <<"a", "b", "c", "d", "e", "f", "g", "h", "i", "j", "k", "l", "m",
               "n", "o", "p", "q", "r", "s", "t", "u", "v", "w", "x", "y", "z">>

\* the UTF-8 byte of a character of the names used here
Ord(c) ==
    CASE c = "S" -> 83
      [] c = "_" -> 95
      [] c = " " -> 32
      [] c = ":" -> 58
      [] OTHER   -> 96 + (CHOOSE i \in 1..26 : LowerCase[i] = c)

AsBytes(s) == [i \in 1..Len(s) |-> Ord(s[i])]

\* DefaultHasher::new(): the SipHash state for key (k0, k1) = (0, 0)
DefaultHasherNew ==
    <<  <<25973, 28787, 28005, 29551>>,     \* 0x736f6d6570736575
        <<28525, 28260, 29281, 25711>>,     \* 0x646f72616e646f6d
        <<29281, 28261, 26469, 27769>>,     \* 0x6c7967656e657261
        <<25971, 31092, 25698, 29797>>  >>  \* 0x7465646279746573

HalfRoundA(v) ==
    LET v0 == Add64(v[1], v[2])
        v1 == Xor64(Rotl64(v[2], 13), v0)
    IN  <<Rotl64(v0, 32), v1, v[3], v[4]>>

HalfRoundB(v) ==
    LET v2 == Add64(v[3], v[4])
        v3 == Xor64(Rotl64(v[4], 16), v2)
    IN  <<v[1], v[2], v2, v3>>

HalfRoundC(v) ==
    LET v0 == Add64(v[1], v[4])
        v3 == Xor64(Rotl64(v[4], 21), v0)
    IN  <<v0, v[2], v[3], v3>>

HalfRoundD(v) ==
    LET v2 == Add64(v[3], v[2])
        v1 == Xor64(Rotl64(v[2], 17), v2)
    IN  <<v[1], v1, Rotl64(v2, 32), v[4]>>

SipRound(v) == HalfRoundD(HalfRoundC(HalfRoundB(HalfRoundA(v))))

\* one message word: v3 ^= m; c_rounds (1); v0 ^= m
Compress(v, m) ==
    LET a == <<v[1], v[2], v[3], Xor64(v[4], m)>>
        r == SipRound(a)
    IN  <<Xor64(r[1], m), r[2], r[3], r[4]>>

\* eight bytes, little-endian, as a 64-bit word
Word(bs) == [j \in 1..4 |-> bs[2 * j - 1] + 256 * bs[2 * j]]

RECURSIVE Absorb(_, _, _)
Absorb(v, bs, length) ==
    IF Len(bs) >= 8
    THEN Absorb(Compress(v, Word(SubSeq(bs, 1, 8))), SubSeq(bs, 9, Len(bs)), length)
    ELSE LET tail == [i \in 1..8 |->
                         IF i <= Len(bs) THEN bs[i]
                         ELSE IF i = 8 THEN length % 256 ELSE 0]
         IN  Compress(v, Word(tail))

\* Hasher::finish: v2 ^= 0xff; d_rounds (3); v0 ^ v1 ^ v2 ^ v3
Finish(v) ==
    LET a == <<v[1], v[2], Xor64(v[3], <<255, 0, 0, 0>>), v[4]>>
        r == SipRound(SipRound(SipRound(a)))
    IN  Xor64(Xor64(r[1], r[2]), Xor64(r[3], r[4]))

\* label.hash(&mut hasher); hasher.finish()
HashStr(hasher, s) ==
    LET bs == AsBytes(s) \o <<255>>
    IN  Finish(Absorb(hasher, bs, Len(bs)))

----------------------------------------------------------------------------
(* The IR: structs and enums as records *)

Label(text) == [label |-> text]
Global(text) == [value |-> text]

None == [kind |-> "None"]
Some(v) == [kind |-> "Some", v |-> v]

GeneralPurpose(n) == [kind |-> "GeneralPurpose", n |-> n]
Special(r) == [kind |-> "Special", special |-> r]

ImmU64(n) == [kind |-> "U64", n |-> n]
ImmUSize(n) == [kind |-> "USize", n |-> n]
ImmI64(n) == [kind |-> "I64", n |-> n]
ImmLabel(l) == [kind |-> "Label", s |-> l]
ImmBytes(b) == [kind |-> "Bytes", b |-> b]

LabelOffset(l, rel) == [label |-> l, rel |-> rel]

OperandRegister(reg) == [kind |-> "Register", reg |-> reg]
OperandImmediate(imm) == [kind |-> "Immediate", imm |-> imm]
OperandDataRef(r) == [kind |-> "DataRef", r |-> r]

DataInt(v) == [kind |-> "Int", v |-> v]
DataUInt(v) == [kind |-> "UInt", v |-> v]
DataUSize(v) == [kind |-> "USize", v |-> v]
DataBytes(b) == [kind |-> "Bytes", b |-> b]

ExprData(d) == [kind |-> "Data", data |-> d]
ExprInstruction(i) == [kind |-> "Instruction", inst |-> i]
ExprBlock(lines) == [kind |-> "Block", lines |-> lines]
ExprLabel(l) == [kind |-> "Label", lbl |-> l]
ExprRaw(str) == [kind |-> "Raw", str |-> str]

\* Amd64Instruction::new
Amd64InstructionNew(mnemonic, operands) ==
    [mnemonic |-> mnemonic, operands |-> operands]

\* Section::new
SectionNew(name, body) == [name |-> name, body |-> body]

----------------------------------------------------------------------------
(* Display implementations *)

\* impl Display for Label: "{}:"
FmtLabel(l) == l.label \o <<":">>

\* impl Display for Global: "global {}"
FmtGlobal(g) == <<"g", "l", "o", "b", "a", "l", " ">> \o g.value

\* impl Display for Amd64SpecialRegister
FmtSpecialRegister(r) ==
    CASE r = "RAX" -> <<"r", "a", "x">>
      [] r = "RBX" -> <<"r", "b", "x">>
      [] r = "RCX" -> <<"r", "c", "x">>
      [] r = "RDX" -> <<"r", "d", "x">>
      [] r = "RDI" -> <<"r", "d", "i">>
      [] r = "RSI" -> <<"r", "s", "i">>
      [] r = "RIP" -> <<"r", "i", "p">>

\* impl Display for Amd64Register
FmtRegister(reg) ==
    CASE reg.kind = "GeneralPurpose" -> <<"x">> \o FmtUnsigned(reg.n)
      [] reg.kind = "Special"        -> FmtSpecialRegister(reg.special)

\* variant: the last byte is not recognised, so every byte is followed by ", "
RECURSIVE ImmBytesLoopOffByOne(_, _, _)
ImmBytesLoopOffByOne(b, i, f) ==
    IF i >= Len(b) THEN f
    ELSE LET formatted_byte == FmtByte(b[i + 1])
         IN  IF i = Len(b)
             THEN ImmBytesLoopOffByOne(b, i + 1, f \o formatted_byte)
             ELSE ImmBytesLoopOffByOne(b, i + 1, f \o formatted_byte \o <<",", " ">>)

\* the loop of the ImmediateValue::Bytes arm; i is the 0-based index of the
\* next byte, f the text written so far.  b.len() - 1 is evaluated only
\* inside the loop body, where b.len() >= 1.
RECURSIVE ImmBytesLoop(_, _, _)
ImmBytesLoop(b, i, f) ==
    IF i >= Len(b) THEN f
    ELSE LET formatted_byte == FmtByte(b[i + 1])
         IN  IF i = Len(b) - 1
             THEN ImmBytesLoop(b, i + 1, f \o formatted_byte)
             ELSE ImmBytesLoop(b, i + 1, f \o formatted_byte \o <<",", " ">>)

\* whether the usize subtraction b.len() - 1, evaluated once per iteration of
\* the Bytes loop, underflows (a panic when overflow checks are compiled in)
ImmBytesOverflow(b) == \E i \in 0..(Len(b) - 1) : Len(b) < 1

\* impl Display for ImmediateValue
FmtImmediateValue(imm) ==
    CASE imm.kind = "U64"   -> FmtUnsigned(imm.n)
      [] imm.kind = "I64"   -> FmtSigned(imm.n)
      [] imm.kind = "USize" -> FmtUnsigned(imm.n)
      [] imm.kind = "Label" -> imm.s.label
      [] imm.kind = "Bytes" -> ImmBytesLoop(imm.b, 0, <<>>)

\* variant: the label of a DataRef is written through Label's Display
FmtOperandLabelDisplay(o) ==
    CASE o.kind = "Register"  -> FmtRegister(o.reg)
      [] o.kind = "Immediate" -> FmtImmediateValue(o.imm)
      [] o.kind = "DataRef"   ->
            IF o.r.rel = None
            THEN <<"[", "r", "e", "l", " ">> \o FmtLabel(o.r.label) \o <<"]">>
            ELSE <<"[">> \o FmtRegister(o.r.rel.v) \o <<" ", "+", " ">>
                     \o FmtLabel(o.r.label) \o <<"]">>

\* impl Display for Operand
FmtOperand(o) ==
    CASE o.kind = "Register"  -> FmtRegister(o.reg)
      [] o.kind = "Immediate" -> FmtImmediateValue(o.imm)
      [] o.kind = "DataRef"   ->
            IF o.r.rel = None
            THEN <<"[", "r", "e", "l", " ">> \o o.r.label.label \o <<"]">>
            ELSE <<"[">> \o FmtRegister(o.r.rel.v) \o <<" ", "+", " ">>
                     \o o.r.label.label \o <<"]">>

\* variant: the separator is written after every operand
RECURSIVE InstructionLoopTrailing(_, _, _)
InstructionLoopTrailing(operands, index, f) ==
    IF index >= Len(operands) THEN f
    ELSE InstructionLoopTrailing(operands, index + 1,
                                 f \o FmtOperand(operands[index + 1]) \o <<",", " ">>)

\* the operand loop of Amd64Instruction's Display; index is 0-based
RECURSIVE InstructionLoop(_, _, _)
InstructionLoop(operands, index, f) ==
    IF index >= Len(operands) THEN f
    ELSE LET sep == IF index > 0 THEN <<",", " ">> ELSE <<>>
         IN  InstructionLoop(operands, index + 1,
                             f \o sep \o FmtOperand(operands[index + 1]))

\* impl Display for Amd64Instruction
FmtInstruction(inst) ==
    IF inst.operands # <<>>
    THEN InstructionLoop(inst.operands, 0, inst.mnemonic \o <<"\t">>)
    ELSE inst.mnemonic

\* variant: the separator follows every element
RECURSIVE JoinTrailing(_, _)
JoinTrailing(strs, sep) ==
    IF strs = <<>> THEN <<>>
    ELSE strs[1] \o sep \o JoinTrailing(Tail(strs), sep)

\* [String]::join
RECURSIVE Join(_, _)
Join(strs, sep) ==
    IF strs = <<>> THEN <<>>
    ELSE IF Len(strs) = 1 THEN strs[1]
    ELSE strs[1] \o sep \o Join(Tail(strs), sep)

\* impl Display for Data
FmtData(d) ==
    CASE d.kind = "Int"   -> <<"d", "q", " ">> \o FmtSigned(d.v)
      [] d.kind = "UInt"  -> <<"d", "q", " ">> \o FmtUnsigned(d.v)
      [] d.kind = "USize" -> <<"d", "q", " ">> \o FmtUnsigned(d.v)
      [] d.kind = "Bytes" ->
            LET formatted_bytes ==
                    Join([i \in 1..Len(d.b) |-> FmtByte(d.b[i])], <<",", " ">>)
            IN  <<"d", "b", " ">> \o formatted_bytes

\* impl Display for AsmExpr; the Block arm writes each child and a newline
RECURSIVE FmtAsmExpr(_)
RECURSIVE BlockLoop(_, _)

\* variant: the children are visited last to first
RECURSIVE BlockLoopReversed(_, _)
BlockLoopReversed(lines, f) ==
    IF lines = <<>> THEN f
    ELSE BlockLoopReversed(SubSeq(lines, 1, Len(lines) - 1),
                           f \o FmtAsmExpr(lines[Len(lines)]) \o <<"\n">>)

BlockLoop(lines, f) ==
    IF lines = <<>> THEN f
    ELSE BlockLoop(Tail(lines), f \o FmtAsmExpr(Head(lines)) \o <<"\n">>)

FmtAsmExpr(e) ==
    CASE e.kind = "Data"        -> <<"\t", "\t">> \o FmtData(e.data)
      [] e.kind = "Instruction" -> <<"\t", "\t">> \o FmtInstruction(e.inst)
      [] e.kind = "Label"       -> <<"\t">> \o FmtLabel(e.lbl)
      [] e.kind = "Raw"         -> e.str
      [] e.kind = "Block"       -> BlockLoop(e.lines, <<>>)

\* variant: the newline separates the lines instead of ending each
RECURSIVE SectionLoopSeparated(_, _)
SectionLoopSeparated(body, f) ==
    IF body = <<>> THEN f
    ELSE IF Len(body) = 1 THEN f \o FmtAsmExpr(Head(body))
    ELSE SectionLoopSeparated(Tail(body), f \o FmtAsmExpr(Head(body)) \o <<"\n">>)

\* the body loop of Section's Display
RECURSIVE SectionLoop(_, _)
SectionLoop(body, f) ==
    IF body = <<>> THEN f
    ELSE SectionLoop(Tail(body), f \o FmtAsmExpr(Head(body)) \o <<"\n">>)

\* impl Display for Section
FmtSection(sec) ==
    LET header == <<"s", "e", "c", "t", "i", "o", "n", " ", ".">>
                      \o sec.name \o <<"\n">>
    IN  IF sec.body # <<>> THEN SectionLoop(sec.body, header) ELSE header

----------------------------------------------------------------------------
(* Symbol naming *)

\* Label::plain
LabelPlain(label) == Label(label)

\* Global::new
GlobalNew(value) == Global(value)

\* variant: every hasher is keyed afresh, as a RandomState would key it
LabelHashedSalted(label) ==
    LET hasher == [DefaultHasherNew EXCEPT ![1][1] = XorBits(@, calls, 16),
                                           ![3][1] = XorBits(@, calls, 16)]
        hash   == HashStr(hasher, label)
    IN  Label(<<"L", "_">> \o FmtLowerHex(hash))

\* Label::hashed
LabelHashed(label) ==
    LET hasher == DefaultHasherNew
        hash   == HashStr(hasher, label)
    IN  Label(<<"L", "_">> \o FmtLowerHex(hash))

\* datastring!($label, $data)
Datastring(label, data) ==
    <<  ExprLabel(LabelHashed(label)),
        ExprData(DataBytes(AsBytes(data))),
        ExprRaw(<<"\t">> \o LabelHashed(<<"S", "_">> \o label).label
                    \o <<" ", "e", "q", "u", " ", "$", " ", "-", " ">>
                    \o LabelHashed(label).label)  >>

----------------------------------------------------------------------------
(* Inputs *)

T_start == <<"_", "s", "t", "a", "r", "t">>
T_msg == <<"m", "s", "g">>
T_mov == <<"m", "o", "v">>
T_syscall == <<"s", "y", "s", "c", "a", "l", "l">>
T_text == <<"t", "e", "x", "t">>
T_data == <<"d", "a", "t", "a">>
T_nop == <<"n", "o", "p">>

\* texts handed to Label::plain and Global::new
ExplicitTexts ==
    {T_start, T_msg, <<>>, <<"a", " ", "b">>, <<"a", ":">>, <<"a", "\n", "b">>}

\* logical names handed to Label::hashed and datastring!
Names == {<<"l">>, T_msg}
LogicalNames == Names \cup {<<"S", "_">> \o n : n \in Names}
DataStrings == {<<"a">>, <<"a", "b">>}

SpecialRegisters == {"RAX", "RBX", "RCX", "RDX", "RDI", "RSI", "RIP"}
Registers ==
    {Special(r) : r \in SpecialRegisters} \cup {GeneralPurpose(n) : n \in {0, 12}}

ByteVals == {0, 10, 255}
ByteSeqs == SeqsUpTo(ByteVals, MaxBytes)

Immediates ==
    {ImmU64(n) : n \in {0, 60}} \cup {ImmI64(n) : n \in {-1, 60}}
        \cup {ImmUSize(7), ImmLabel(Label(T_start))}
        \cup {ImmBytes(b) : b \in ByteSeqs}

DataRefs == {LabelOffset(Label(T_msg), rel) :
                rel \in {None} \cup {Some(r) : r \in Registers}}

Operands ==
    {OperandRegister(r) : r \in Registers}
        \cup {OperandImmediate(i) : i \in Immediates}
        \cup {OperandDataRef(r) : r \in DataRefs}

\* the operands instructions are built from
InstrOperands ==
    {   OperandRegister(Special("RAX")), OperandRegister(Special("RDI")),
        OperandRegister(GeneralPurpose(12)),
        OperandImmediate(ImmI64(60)), OperandImmediate(ImmI64(-1)),
        OperandImmediate(ImmLabel(Label(T_start))),
        OperandImmediate(ImmBytes(<<>>)), OperandImmediate(ImmBytes(<<0, 255>>)),
        OperandDataRef(LabelOffset(Label(T_msg), None)),
        OperandDataRef(LabelOffset(Label(T_msg), Some(Special("RAX"))))  }

Mnemonics == {T_mov, T_syscall}

Datas ==
    {DataInt(v) : v \in {-12, 0, 7, 60}} \cup {DataUInt(v) : v \in {0, 7, 60}}
        \cup {DataUSize(v) : v \in {0, 7, 1234}}
        \cup {DataBytes(b) : b \in ByteSeqs}

MovRax60 ==
    Amd64InstructionNew(T_mov, <<OperandRegister(Special("RAX")),
                                 OperandImmediate(ImmI64(60))>>)

\* the expressions that are not Blocks
Leaves ==
    {   ExprLabel(LabelPlain(T_start)), ExprInstruction(MovRax60),
        ExprData(DataBytes(<<0, 255>>)), ExprRaw(T_nop)  }

\* Forest(n): the sequences of expressions with n nodes in all;
\* ExprsOfSize(n): the expressions with n nodes (a Block counts as one)
RECURSIVE Forest(_)
RECURSIVE ExprsOfSize(_)
ExprsOfSize(n) ==
    IF n = 1 THEN Leaves \cup {ExprBlock(<<>>)}
    ELSE {ExprBlock(f) : f \in Forest(n - 1)}

Forest(n) ==
    IF n = 0 THEN {<<>>}
    ELSE UNION {{<<e>> \o f : e \in ExprsOfSize(k), f \in Forest(n - k)} : k \in 1..n}

Bodies == UNION {Forest(n) : n \in 0..MaxNodes}

SectionNames == {T_text, T_data}

----------------------------------------------------------------------------
(* The state machine: a value is constructed, rendered by its Display      *)
(* implementation, and dropped.                                            *)

NoNode == [type |-> "None"]
Value(type, val) == [type |-> type, val |-> val]

Init ==
    /\ pc = "build"
    /\ op = "none"
    /\ arg = <<>>
    /\ node = NoNode
    /\ out = <<>>
    /\ calls = 0
    /\ derived = {}

Built(o, a, n) ==
    /\ pc' = "built"
    /\ op' = o
    /\ arg' = a
    /\ node' = n
    /\ out' = <<>>

Rendered(type, text, panics) ==
    /\ pc = "built"
    /\ node.type = type
    /\ pc' = IF panics THEN "panicked" ELSE "rendered"
    /\ out' = text
    /\ UNCHANGED <<op, arg, node, calls, derived>>

Logged(name, site) ==
    [name |-> name, text |-> LabelHashed(name).label, site |-> site]

(* constructors *)

NewLabelPlain ==
    /\ pc = "build"
    /\ \E s \in ExplicitTexts :
            /\ Built("Label::plain", s, Value("Label", LabelPlain(s)))
            /\ UNCHANGED <<calls, derived>>

NewGlobal ==
    /\ pc = "build"
    /\ \E s \in ExplicitTexts :
            /\ Built("Global::new", s, Value("Global", GlobalNew(s)))
            /\ UNCHANGED <<calls, derived>>

NewLabelHashed ==
    /\ pc = "build"
    /\ \E n \in LogicalNames :
            /\ calls + 1 <= MaxCalls
            /\ Built("Label::hashed", n, Value("Label", LabelHashed(n)))
            /\ calls' = calls + 1
            /\ derived' = derived \cup {Logged(n, "hashed")}

\* AsmExpr::Block(datastring!(n, d)), as main builds section_data
NewDatastring ==
    /\ pc = "build"
    /\ \E n \in Names, d \in DataStrings :
            /\ calls + 3 <= MaxCalls
            /\ Built("datastring!", n, Value("AsmExpr", ExprBlock(Datastring(n, d))))
            /\ calls' = calls + 3
            /\ derived' = derived \cup {Logged(n, "datastring"),
                                        Logged(<<"S", "_">> \o n, "datastring")}

\* Operand::DataRef(LabelOffset { label: Label::hashed(n), rel }), as main does
NewDataRefHashed ==
    /\ pc = "build"
    /\ \E n \in Names, rel \in {None, Some(Special("RIP"))} :
            /\ calls + 1 <= MaxCalls
            /\ Built("DataRef", n,
                     Value("Operand", OperandDataRef(LabelOffset(LabelHashed(n), rel))))
            /\ calls' = calls + 1
            /\ derived' = derived \cup {Logged(n, "DataRef")}

NewImmediate ==
    /\ pc = "build"
    /\ \E i \in Immediates :
            /\ Built("ImmediateValue", <<>>, Value("ImmediateValue", i))
            /\ UNCHANGED <<calls, derived>>

NewOperand ==
    /\ pc = "build"
    /\ \E o \in Operands :
            /\ Built("Operand", <<>>, Value("Operand", o))
            /\ UNCHANGED <<calls, derived>>

NewInstruction ==
    /\ pc = "build"
    /\ \E m \in Mnemonics, ops \in SeqsUpTo(InstrOperands, MaxOperands) :
            /\ Built("Amd64Instruction::new", m,
                     Value("Amd64Instruction", Amd64InstructionNew(m, ops)))
            /\ UNCHANGED <<calls, derived>>

NewData ==
    /\ pc = "build"
    /\ \E d \in Datas :
            /\ Built("Data", <<>>, Value("Data", d))
            /\ UNCHANGED <<calls, derived>>

NewSection ==
    /\ pc = "build"
    /\ \E name \in SectionNames, body \in Bodies :
            /\ Built("Section::new", name, Value("Section", SectionNew(name, body)))
            /\ UNCHANGED <<calls, derived>>

(* Display::fmt of the value in hand *)

ImmediatePanics(imm) == imm.kind = "Bytes" /\ ImmBytesOverflow(imm.b)
OperandPanics(o) == o.kind = "Immediate" /\ ImmediatePanics(o.imm)

RenderLabel == Rendered("Label", FmtLabel(node.val), FALSE)
RenderGlobal == Rendered("Global", FmtGlobal(node.val), FALSE)
RenderImmediate ==
    Rendered("ImmediateValue", FmtImmediateValue(node.val), ImmediatePanics(node.val))
RenderOperand == Rendered("Operand", FmtOperand(node.val), OperandPanics(node.val))
RenderInstruction ==
    Rendered("Amd64Instruction", FmtInstruction(node.val),
             \E i \in 1..Len(node.val.operands) : OperandPanics(node.val.operands[i]))
RenderData == Rendered("Data", FmtData(node.val), FALSE)
RenderAsmExpr == Rendered("AsmExpr", FmtAsmExpr(node.val), FALSE)
RenderSection == Rendered("Section", FmtSection(node.val), FALSE)

\* the value goes out of scope
Drop ==
    /\ pc = "rendered"
    /\ pc' = "build"
    /\ op' = "none"
    /\ arg' = <<>>
    /\ node' = NoNode
    /\ out' = <<>>
    /\ UNCHANGED <<calls, derived>>

\* building and rendering the IR
Next ==
    \/ NewImmediate
    \/ NewOperand
    \/ NewInstruction
    \/ NewData
    \/ NewSection
    \/ RenderImmediate
    \/ RenderOperand
    \/ RenderInstruction
    \/ RenderData
    \/ RenderSection
    \/ Drop

Spec == Init /\ [][Next]_vars

\* naming symbols
NextNaming ==
    \/ NewLabelPlain
    \/ NewGlobal
    \/ NewLabelHashed
    \/ NewDatastring
    \/ NewDataRefHashed
    \/ RenderLabel
    \/ RenderGlobal
    \/ RenderOperand
    \/ RenderAsmExpr
    \/ Drop

SpecNaming == Init /\ [][NextNaming]_vars

----------------------------------------------------------------------------
(* Vocabulary of the properties *)

Contains(text, c) == \E i \in 1..Len(text) : text[i] = c

\* the pieces of text between occurrences of sep
RECURSIVE SplitFrom(_, _, _)
SplitFrom(text, sep, cur) ==
    IF text = <<>> THEN <<cur>>
    ELSE IF Len(text) >= Len(sep) /\ SubSeq(text, 1, Len(sep)) = sep
    THEN <<cur>> \o SplitFrom(SubSeq(text, Len(sep) + 1, Len(text)), sep, <<>>)
    ELSE SplitFrom(Tail(text), sep, cur \o <<Head(text)>>)

Split(text, sep) == SplitFrom(text, sep, <<>>)

CommaSpace == <<",", " ">>

HexValue(c) ==
    CHOOSE d \in 0..15 :
        <<"0", "1", "2", "3", "4", "5", "6", "7", "8", "9",
          "A", "B", "C", "D", "E", "F">>[d + 1] = c

IsUpperHex(c) == c \in {"0", "1", "2", "3", "4", "5", "6", "7", "8", "9",
                        "A", "B", "C", "D", "E", "F"}

RenderedAs(type) == pc = "rendered" /\ node.type = type

----------------------------------------------------------------------------
(* C1: an instruction renders as its mnemonic alone when it has no operand, *)
(* and otherwise as the mnemonic, one tab, and the rendered operands in     *)
(* stored order separated by ", " with no leading or trailing separator;    *)
(* mov (rax, I64 60) renders as "mov\trax, 60".                             *)
C1_InstructionText ==
    RenderedAs("Amd64Instruction") =>
        LET m     == node.val.mnemonic
            ops   == node.val.operands
            texts == [i \in 1..Len(ops) |-> FmtOperand(ops[i])]
        IN  /\ ops = <<>> => out = m
            /\ ops # <<>> => out = m \o <<"\t">> \o Join(texts, CommaSpace)
            /\ Len(out) = Len(m) + Len(Concat(texts))
                            + (IF ops = <<>> THEN 0 ELSE 1 + 2 * (Len(ops) - 1))
            /\ node.val = MovRax60 =>
                   out = <<"m", "o", "v", "\t", "r", "a", "x", ",", " ", "6", "0">>

C1_Witness ==
    /\ RenderedAs("Amd64Instruction")
    /\ node.val = MovRax60

----------------------------------------------------------------------------
(* C2: rendering ImmediateValue::Bytes(b) succeeds for every b, the empty   *)
(* and the one-byte sequence included, and yields one "0xHH" token per      *)
(* byte, in input order, joined by ", ", with no trailing separator;        *)
(* [0x00, 0xFF] renders as "0x00, 0xFF" and the empty sequence as "".       *)
C2_ImmediateBytes ==
    (/\ pc \in {"rendered", "panicked"}
     /\ node.type = "ImmediateValue"
     /\ node.val.kind = "Bytes") =>
        LET b == node.val.b
            n == Len(b)
            token(i) == SubSeq(out, 6 * i - 5, 6 * i - 2)
        IN  /\ pc = "rendered"
            /\ Len(out) = IF n = 0 THEN 0 ELSE 6 * n - 2
            /\ \A i \in 1..n :
                   /\ token(i)[1] = "0" /\ token(i)[2] = "x"
                   /\ IsUpperHex(token(i)[3]) /\ IsUpperHex(token(i)[4])
                   /\ 16 * HexValue(token(i)[3]) + HexValue(token(i)[4]) = b[i]
            /\ \A i \in 1..(n - 1) : SubSeq(out, 6 * i - 1, 6 * i) = CommaSpace
            /\ b = <<0, 255>> =>
                   out = <<"0", "x", "0", "0", ",", " ", "0", "x", "F", "F">>
            /\ b = <<>> => out = <<>>

C2_Witness ==
    /\ RenderedAs("ImmediateValue")
    /\ node.val.kind = "Bytes"
    /\ node.val.b = <<0, 255>>

----------------------------------------------------------------------------
(* C3: a Data directive renders as one directive: Int, UInt and USize with  *)
(* value v render as "dq " and the decimal form of v, identically for the   *)
(* same value; Data::Bytes(b) renders as "db " and the text that            *)
(* ImmediateValue::Bytes renders for the same b.                            *)

DigitValue(c) ==
    CHOOSE d \in 0..9 :
        <<"0", "1", "2", "3", "4", "5", "6", "7", "8", "9">>[d + 1] = c

IsDigit(c) == c \in {"0", "1", "2", "3", "4", "5", "6", "7", "8", "9"}

RECURSIVE DecimalValue(_)
DecimalValue(text) ==
    IF text = <<>> THEN 0
    ELSE 10 * DecimalValue(SubSeq(text, 1, Len(text) - 1)) + DigitValue(text[Len(text)])

IsMagnitudeOf(text, v) ==
    /\ text # <<>>
    /\ \A i \in 1..Len(text) : IsDigit(text[i])
    /\ Len(text) > 1 => text[1] # "0"
    /\ DecimalValue(text) = v

IsDecimalOf(text, v) ==
    IF v < 0 THEN text # <<>> /\ text[1] = "-" /\ IsMagnitudeOf(Tail(text), -v)
    ELSE IsMagnitudeOf(text, v)

C3_DataDirective ==
    RenderedAs("Data") =>
        LET d == node.val
        IN  /\ ~Contains(out, "\n")
            /\ d.kind \in {"Int", "UInt", "USize"} =>
                   /\ SubSeq(out, 1, 3) = <<"d", "q", " ">>
                   /\ IsDecimalOf(SubSeq(out, 4, Len(out)), d.v)
                   /\ d.v >= 0 =>
                          \A k \in {"Int", "UInt", "USize"} :
                              FmtData([kind |-> k, v |-> d.v]) = out
            /\ d.kind = "Bytes" =>
                   out = <<"d", "b", " ">> \o FmtImmediateValue(ImmBytes(d.b))

C3_Witness ==
    /\ RenderedAs("Data")
    /\ node.val.kind = "Bytes"
    /\ Len(node.val.b) = 2

----------------------------------------------------------------------------
(* C4: a Section named n with body e1..ek renders as the line "section .n", *)
(* then every ei in order followed by one newline, a Label as one tab and   *)
(* "<symbol>:", an Instruction or a Data after two tabs; section text with  *)
(* the single Label _start renders as "section .text\n\t_start:\n" and an   *)
(* empty body as the header line alone.                                     *)

SectionHeader(name) ==
    <<"s", "e", "c", "t", "i", "o", "n", " ", ".">> \o name

ExpectedLine(e) ==
    CASE e.kind = "Label"       -> <<"\t">> \o e.lbl.label \o <<":">>
      [] e.kind = "Instruction" -> <<"\t", "\t">> \o FmtInstruction(e.inst)
      [] e.kind = "Data"        -> <<"\t", "\t">> \o FmtData(e.data)
      [] OTHER                  -> FmtAsmExpr(e)

C4_SectionText ==
    RenderedAs("Section") =>
        LET name == node.val.name
            body == node.val.body
            lines == [i \in 1..Len(body) |-> ExpectedLine(body[i])]
        IN  /\ out = SectionHeader(name) \o <<"\n">>
                        \o Concat([i \in 1..Len(body) |-> lines[i] \o <<"\n">>])
            /\ body = <<>> => out = SectionHeader(name) \o <<"\n">>
            /\ (\A i \in 1..Len(body) : body[i].kind # "Block") =>
                   Split(out, <<"\n">>) = <<SectionHeader(name)>> \o lines \o << <<>> >>
            /\ (name = T_text /\ body = <<ExprLabel(Label(T_start))>>) =>
                   out = <<"s", "e", "c", "t", "i", "o", "n", " ", ".", "t", "e", "x", "t",
                           "\n", "\t", "_", "s", "t", "a", "r", "t", ":", "\n">>

C4_Witness ==
    /\ RenderedAs("Section")
    /\ node.val.name = T_text
    /\ node.val.body = <<ExprLabel(Label(T_start))>>

----------------------------------------------------------------------------
----------------------------------------------------------------------------
(* C6: the text of Label::hashed(n) is "L_" and the 64-bit hash of n as     *)
(* fixed-width lower-case hexadecimal: sixteen digits for every hash value, *)
(* leading zero digits included.                                            *)
C6_FixedWidthHex ==
    \A p \in derived :
        /\ Len(p.text) = 2 + 16
        /\ SubSeq(p.text, 1, 2) = <<"L", "_">>

----------------------------------------------------------------------------
(* C7: every sequence is traversed in insertion order: the operands of an   *)
(* Instruction, the Expressions of a Section body and the children of a     *)
(* Block at any depth (depth-first) appear in the rendered text in stored   *)
(* order, none dropped, duplicated or reordered.                            *)

RECURSIVE FlattenExprs(_)
FlattenExprs(es) ==
    IF es = <<>> THEN <<>>
    ELSE (IF Head(es).kind = "Block" THEN FlattenExprs(Head(es).lines)
          ELSE <<Head(es)>>) \o FlattenExprs(Tail(es))

NonEmpty(ss) == SelectSeq(ss, LAMBDA t : Len(t) > 0)

C7_InsertionOrder ==
    /\ RenderedAs("Amd64Instruction") =>
           LET m     == node.val.mnemonic
               ops   == node.val.operands
               texts == [i \in 1..Len(ops) |-> FmtOperand(ops[i])]
           IN  (/\ ops # <<>>
                /\ \A i \in 1..Len(ops) : ~Contains(texts[i], ",")) =>
                   Split(SubSeq(out, Len(m) + 2, Len(out)), CommaSpace) = texts
    /\ RenderedAs("Section") =>
           LET leaves == FlattenExprs(node.val.body)
           IN  NonEmpty(Split(out, <<"\n">>)) =
                   <<SectionHeader(node.val.name)>>
                       \o [i \in 1..Len(leaves) |-> ExpectedLine(leaves[i])]

C7_Witness ==
    /\ RenderedAs("Section")
    /\ LET body   == node.val.body
           leaves == FlattenExprs(body)
       IN  /\ Len(leaves) >= 2
           /\ leaves[1] # leaves[2]
           /\ \E i \in 1..Len(body) :
                  /\ body[i].kind = "Block"
                  /\ \E j \in 1..Len(body[i].lines) :
                         /\ body[i].lines[j].kind = "Block"
                         /\ body[i].lines[j].lines # <<>>

----------------------------------------------------------------------------
(* C8: a DataRef operand on symbol S renders as "[rel S]" without a base    *)
(* register and as "[REG + S]" with base register REG, REG being the bare   *)
(* register name and S the symbol without the colon of a label definition.  *)
C8_DataRefText ==
    (RenderedAs("Operand") /\ node.val.kind = "DataRef") =>
        LET S   == node.val.r.label.label
            rel == node.val.r.rel
        IN  /\ rel = None => out = <<"[", "r", "e", "l", " ">> \o S \o <<"]">>
            /\ rel # None =>
                   out = <<"[">> \o FmtRegister(rel.v) \o <<" ", "+", " ">> \o S \o <<"]">>
            /\ ~Contains(out, "%")
            /\ ~Contains(out, ":")

C8_Witness ==
    /\ RenderedAs("Operand")
    /\ node.val.kind = "DataRef"
    /\ node.val.r.rel = Some(Special("RAX"))

----------------------------------------------------------------------------
(* C9: Label::plain and Global::new reject, at construction, a text that is *)
(* not a legal assembler identifier (empty, or with whitespace, a newline   *)
(* or a colon): no such symbol is constructed or rendered.                  *)

IdentStart == {LowerCase[i] : i \in 1..26} \cup {"_", ".", "S", "L"}
IdentChars == IdentStart \cup {"0", "1", "2", "3", "4", "5", "6", "7", "8", "9", "$"}

IsLegalIdent(text) ==
    /\ text # <<>>
    /\ text[1] \in IdentStart
    /\ \A i \in 1..Len(text) : text[i] \in IdentChars

C9_IllegalSymbolRejected ==
    (pc \in {"built", "rendered"} /\ op \in {"Label::plain", "Global::new"}) =>
        IsLegalIdent(arg)

----------------------------------------------------------------------------
(* C10: a Block only groups: a Section whose body is [Block(xs)] renders to *)
(* the text of the Section of the same name whose body is xs, each child on *)
(* one line, the Block adding no indentation and no empty line.             *)
C10_BlockTransparent ==
    (/\ RenderedAs("Section")
     /\ Len(node.val.body) = 1
     /\ node.val.body[1].kind = "Block") =>
        out = FmtSection(SectionNew(node.val.name, node.val.body[1].lines))

====
